---- MODULE Spec2Model ----
(***************************************************************************)
(* Model of the MediaPreview lightbox component                            *)
(* (src/src/components/MediaPreview.tsx).                                  *)
(*                                                                         *)
(* One step of the model is one turn of the event loop: an event (a new    *)
(* set of props from the parent, a click, a key event, the settlement of   *)
(* a fetch, the unmount) followed by the re-render and the effects it      *)
(* triggers, run to completion.  Array indices are 0-based as in the       *)
(* source; TLA+ sequences are 1-based, so At(c, i) reads c[i + 1].         *)
(***************************************************************************)
EXTENDS Integers, Sequences, FiniteSets

\* ---------------------------------------------------------------- bounds
\* at most this many metadata fetches are in flight at once
MaxInFlight == 2

\* ------------------------------------------------------------ input sets
Null == "null"
Undefined == "undefined"
NoFetch == "none"
Ids == {"m1", "m2", "m3"}
Dirs == {"prev", "next"}
Keys == {"ArrowLeft", "ArrowRight", "Escape", "a"}
Colls == { <<>>, <<"m1", "m2", "m3">>, <<"m2", "m2">> }

VARIABLES
  mounted,          \* the component instance exists
  mediaId,          \* prop: string | null
  isOpen,           \* prop
  allMediaIds,      \* prop
  onNavigate,       \* prop: TRUE iff a navigation delegate is passed
  currentIndex,     \* useState, line 26
  currentMediaInfo, \* useState, line 27
  isLoading,        \* useState, line 28
  bodyOverflow,     \* document.body.style.overflow
  listeners,        \* keydown listeners registered on window, in order
  kbEffect,         \* handler of the last run of the keyboard effect
  curFetch,         \* in-flight fetch issued by the latest run of the fetch effect
  staleFetches,     \* in-flight fetches of earlier runs: id -> how many
  out,              \* callbacks invoked during the last step
  selfNavigated,    \* history: the stored index was last set by handleNavigate
                    \* (line 78), not by the index effect (line 47)
  navigateCalled    \* history: handleNavigate was invoked during the last step

vars == << mounted, mediaId, isOpen, allMediaIds, onNavigate, currentIndex,
           currentMediaInfo, isLoading, bodyOverflow, listeners, kbEffect,
           curFetch, staleFetches, out, selfNavigated, navigateCalled >>

\* ------------------------------------------------------- pure functions
\* Array.prototype.indexOf: first position (0-based) or -1
IndexOf(c, id) ==
  IF \E i \in 1..Len(c) : c[i] = id
  THEN (CHOOSE i \in 1..Len(c) : c[i] = id /\ \A j \in 1..(i-1) : c[j] # id) - 1
  ELSE -1

\* allMediaIds[i]: undefined outside the array
At(c, i) == IF i >= 0 /\ i < Len(c) THEN c[i + 1] ELSE Undefined

\* lines 67-72
NextIndexClamped(i, dir, n) ==
  IF dir = "prev" THEN (IF i = 0 THEN 0 ELSE i - 1)
  ELSE (IF i + 1 >= n THEN n - 1 ELSE i + 1)

\* prev without "+ n": JavaScript's % keeps the sign, (0 - 1) % n is -1
NextIndexNoPlusN(i, dir, n) ==
  IF dir = "prev" THEN (IF i = 0 THEN -1 ELSE (i - 1) % n) ELSE (i + 1) % n

NextIndex(i, dir, n) ==
  IF dir = "prev" THEN (i - 1 + n) % n ELSE (i + 1) % n

\* line 65, negated: handleNavigate goes on
NavGuardNoIndex(c, i) == Len(c) # 0

NavGuard(c, i) == Len(c) # 0 /\ i # -1

\* the metadata the server returns for an identifier (fetchMediaInfo)
ServerExt(id) == IF id = "m2" THEN ".mp4" ELSE IF id = "m3" THEN ".MOV" ELSE ".jpg"
ServerInfo(id) == [alt |-> <<id, ServerExt(id)>>, createdAt |-> "server"]

\* line 58: { alt: `Media ${mediaId}`, createdAt: now }
FallbackAnon(id) == [alt |-> <<"Media ">>, createdAt |-> "now"]

Fallback(id) == [alt |-> <<"Media ", id>>, createdAt |-> "now"]

\* useState(null), line 27: no metadata stored yet
NoInfo == [alt |-> <<>>, createdAt |-> "null"]

Contains(alt, id) == \E i \in 1..Len(alt) : alt[i] = id

Infos == {ServerInfo(id) : id \in Ids} \cup {Fallback(id) : id \in Ids}

\* what the component returns: null (line 102), the lightbox (line 110) or
\* an AnimatePresence without a child
Output == IF mediaId = Null THEN "null" ELSE IF isOpen THEN "lightbox" ELSE "empty"

\* the buttons and the overlay exist
Rendered == mounted /\ Output = "lightbox"

\* line 104
CurrentId ==
  IF currentIndex # -1 /\ At(allMediaIds, currentIndex) # Undefined
  THEN At(allMediaIds, currentIndex) ELSE mediaId

\* ------------------------------------------------------------- effects
\* lines 33-37
ScrollEffectNoLock(open) == ""

ScrollEffect(open) == IF open THEN "hidden" ELSE ""

\* line 39
ScrollCleanup == ""

\* line 45: the body of the index/fetch effect runs
FetchGuardNoNull(id, c) == Len(c) # 0

FetchGuard(id, c) == id # Null /\ Len(c) # 0

\* the closure handleKeyDown of a render: what handleNavigate reads
Handler(i, c, del) == [idx |-> i, coll |-> c, nav |-> del]

RECURSIVE RemoveOne(_, _)
RemoveOne(ls, h) ==
  IF ls = <<>> THEN <<>>
  ELSE IF Head(ls) = h THEN Tail(ls)
  ELSE <<Head(ls)>> \o RemoveOne(Tail(ls), h)

\* line 98: removeEventListener of the handler the effect run created
KeyCleanupLeak(ls, eff) == ls

KeyCleanup(ls, eff) == IF eff.added THEN RemoveOne(ls, eff.h) ELSE ls

\* lines 94-96
KeyBindAlways(ls, open, h) == Append(ls, h)

KeyBind(ls, open, h) == IF open THEN Append(ls, h) ELSE ls

\* one run of the keyboard effect: cleanup of the previous run, then the body
KeyEffect(ls, eff, open, h) == KeyBind(KeyCleanup(ls, eff), open, h)

\* what fetchMediaInfo can be called with (mediaId: string | null)
FetchArgs == Ids \cup {Null}

TotalStale(sf) == sf["m1"] + sf["m2"] + sf["m3"] + sf[Null]
InFlight == TotalStale(staleFetches) + (IF curFetch = NoFetch THEN 0 ELSE 1)

\* the fetch of the previous effect run is no longer the latest one
Supersede(sf, cur) == IF cur = NoFetch THEN sf ELSE [sf EXCEPT ![cur] = @ + 1]

KbRun(s, open, h) ==
  [ls |-> KeyEffect(s.ls, s.eff, open, h), eff |-> [h |-> h, added |-> open]]

\* the keyboard effect over one commit: it runs on the render that carries
\* the new props when isOpen or allMediaIds changed (closure over the index
\* of that render, i1), and again on the re-render caused by setCurrentIndex
\* when the index changed (closure over i2).  Deps: line 100.
\* the same with currentIndex missing from the deps
KbCommitNoIndexDep(s, depsChanged, open, c, del, i1, i2) ==
  IF depsChanged THEN KbRun(s, open, Handler(i1, c, del)) ELSE s

KbCommit(s, depsChanged, open, c, del, i1, i2) ==
  LET s1 == IF depsChanged THEN KbRun(s, open, Handler(i1, c, del)) ELSE s
  IN  IF i2 # i1 THEN KbRun(s1, open, Handler(i2, c, del)) ELSE s1

NoCalls == <<>>
Call(fn, arg) == [fn |-> fn, arg |-> arg]

\* ---------------------------------------------------------------- Init
\* the first render and its effects, for any props the parent may pass
Init ==
  \E id \in Ids \cup {Null}, open \in BOOLEAN, c \in Colls, del \in BOOLEAN :
    LET fires == FetchGuard(id, c)
        idx   == IF fires THEN IndexOf(c, id) ELSE -1
        kb    == KbCommit([ls |-> <<>>, eff |-> [h |-> Handler(-1, c, del), added |-> FALSE]],
                          TRUE, open, c, del, -1, idx)
    IN  /\ mounted = TRUE
        /\ mediaId = id
        /\ isOpen = open
        /\ allMediaIds = c
        /\ onNavigate = del
        /\ currentIndex = idx
        /\ currentMediaInfo = NoInfo
        /\ isLoading = fires
        /\ bodyOverflow = ScrollEffect(open)
        /\ listeners = kb.ls
        /\ kbEffect = kb.eff
        /\ curFetch = IF fires THEN id ELSE NoFetch
        /\ staleFetches = [i \in FetchArgs |-> 0]
        /\ out = NoCalls
        /\ selfNavigated = FALSE
        /\ navigateCalled = FALSE

\* ------------------------------------------------------------- actions
\* The parent re-renders the component with new mediaId, isOpen and
\* allMediaIds.  newRef says that allMediaIds is a new array (the effects
\* compare it by reference).
Rerender(nid, nopen, ncoll, newRef) ==
  LET runs2 == nid # mediaId \/ newRef                    \* deps, line 62
      fires == runs2 /\ FetchGuard(nid, ncoll)            \* line 45
      idx   == IF fires THEN IndexOf(ncoll, nid) ELSE currentIndex   \* 46-47
      kb    == KbCommit([ls |-> listeners, eff |-> kbEffect],
                        nopen # isOpen \/ newRef, nopen, ncoll, onNavigate,
                        currentIndex, idx)
  IN  /\ mounted
      /\ ncoll # allMediaIds => newRef
      /\ newRef \/ <<nid, nopen>> # <<mediaId, isOpen>>
      /\ fires => InFlight < MaxInFlight
      /\ mediaId' = nid
      /\ isOpen' = nopen
      /\ allMediaIds' = ncoll
      /\ currentIndex' = idx
      /\ isLoading' = (IF fires THEN TRUE ELSE isLoading)  \* line 50
      /\ curFetch' = (IF runs2 THEN (IF fires THEN nid ELSE NoFetch) ELSE curFetch)  \* 51
      /\ staleFetches' = (IF runs2 THEN Supersede(staleFetches, curFetch) ELSE staleFetches)
      /\ bodyOverflow' = (IF nopen # isOpen THEN ScrollEffect(nopen) ELSE bodyOverflow)
      /\ listeners' = kb.ls
      /\ kbEffect' = kb.eff
      /\ out' = NoCalls
      /\ selfNavigated' = (IF fires THEN FALSE ELSE selfNavigated)
      /\ navigateCalled' = FALSE
      /\ UNCHANGED << mounted, onNavigate, currentMediaInfo >>

\* The parent re-renders the component with another onNavigate prop and
\* nothing else changed: no effect has onNavigate among its deps, so none
\* runs and the registered listener keeps the handleNavigate it closed over.
SetOnNavigate(ndel) ==
  /\ mounted
  /\ ndel # onNavigate
  /\ onNavigate' = ndel
  /\ out' = NoCalls
  /\ navigateCalled' = FALSE
  /\ UNCHANGED << mounted, mediaId, isOpen, allMediaIds, currentIndex,
                  currentMediaInfo, isLoading, bodyOverflow, listeners, kbEffect,
                  curFetch, staleFetches, selfNavigated >>

\* lines 52-60: what a settling fetch for id stores
SettleInfo(id, ok) == IF ok THEN ServerInfo(id) ELSE Fallback(id)

\* the same with setIsLoading(false) missing from the catch handler
ApplyKeepLoading(id, ok) ==
  /\ mounted
  /\ currentMediaInfo' = SettleInfo(id, ok)
  /\ isLoading' = (IF ok THEN FALSE ELSE isLoading)
  /\ out' = NoCalls
  /\ navigateCalled' = FALSE
  /\ UNCHANGED << mounted, mediaId, isOpen, allMediaIds, onNavigate, currentIndex,
                  bodyOverflow, listeners, kbEffect, selfNavigated >>

Apply(id, ok) ==
  /\ mounted
  /\ currentMediaInfo' = SettleInfo(id, ok)
  /\ isLoading' = FALSE
  /\ out' = NoCalls
  /\ navigateCalled' = FALSE
  /\ UNCHANGED << mounted, mediaId, isOpen, allMediaIds, onNavigate, currentIndex,
                  bodyOverflow, listeners, kbEffect, selfNavigated >>

\* the fetch of the latest effect run settles
SettleCurrent(ok) ==
  /\ curFetch # NoFetch
  /\ Apply(curFetch, ok)
  /\ curFetch' = NoFetch
  /\ UNCHANGED staleFetches

\* a fetch of an earlier effect run settles
SettleStale(id, ok) ==
  /\ staleFetches[id] > 0
  /\ Apply(id, ok)
  /\ staleFetches' = [staleFetches EXCEPT ![id] = @ - 1]
  /\ UNCHANGED curFetch

\* handleNavigate (lines 64-80) on the values i, c, del its closure holds:
\* the index it leaves and the delegate calls it makes
HandleNavigateIndexAlways(i, c, del, dir) ==
  IF NavGuard(c, i) THEN NextIndex(i, dir, Len(c)) ELSE i

HandleNavigateIndex(i, c, del, dir) ==
  IF NavGuard(c, i) /\ ~del THEN NextIndex(i, dir, Len(c)) ELSE i

HandleNavigateCalls(i, c, del, dir) ==
  IF NavGuard(c, i) /\ del THEN << Call("onNavigate", dir) >> ELSE NoCalls

\* state after setCurrentIndex(ni) and the re-render it causes
CommitIndex(ni, navigated, calls) ==
  LET kb == KbCommit([ls |-> listeners, eff |-> kbEffect], FALSE, isOpen,
                     allMediaIds, onNavigate, currentIndex, ni)
  IN  /\ currentIndex' = ni
      /\ listeners' = kb.ls
      /\ kbEffect' = kb.eff
      /\ out' = calls
      /\ selfNavigated' = (selfNavigated \/ navigated)
      /\ UNCHANGED << mounted, mediaId, isOpen, allMediaIds, onNavigate,
                      currentMediaInfo, isLoading, bodyOverflow, curFetch, staleFetches >>

\* the prev / next buttons, lines 143-167: handleNavigate of the current render
ClickNavigate(dir) ==
  /\ Rendered
  /\ navigateCalled' = TRUE
  /\ CommitIndex(HandleNavigateIndex(currentIndex, allMediaIds, onNavigate, dir),
                 NavGuard(allMediaIds, currentIndex) /\ ~onNavigate,
                 HandleNavigateCalls(currentIndex, allMediaIds, onNavigate, dir))

\* the close button and the overlay, lines 117 and 135
ClickClose ==
  /\ Rendered
  /\ out' = << Call("onClose", Null) >>
  /\ navigateCalled' = FALSE
  /\ UNCHANGED << mounted, mediaId, isOpen, allMediaIds, onNavigate, currentIndex,
                  currentMediaInfo, isLoading, bodyOverflow, listeners, kbEffect,
                  curFetch, staleFetches, selfNavigated >>

\* handleKeyDown (lines 82-90) of one registered listener h, on the state
\* acc the earlier listeners of the same event left
HandleKeyDown(h, key, acc) ==
  LET dir == IF key = "ArrowLeft" THEN "prev" ELSE "next"
  IN  IF key \in {"ArrowLeft", "ArrowRight"}
      THEN [idx |-> IF NavGuard(h.coll, h.idx) /\ ~h.nav
                    THEN HandleNavigateIndex(h.idx, h.coll, h.nav, dir) ELSE acc.idx,
            set |-> acc.set \/ (NavGuard(h.coll, h.idx) /\ ~h.nav),
            calls |-> acc.calls \o HandleNavigateCalls(h.idx, h.coll, h.nav, dir)]
      ELSE IF key = "Escape"
      THEN [acc EXCEPT !.calls = @ \o << Call("onClose", Null) >>]
      ELSE acc

RECURSIVE Dispatch(_, _, _)
Dispatch(ls, key, acc) ==
  IF ls = <<>> THEN acc
  ELSE Dispatch(Tail(ls), key, HandleKeyDown(Head(ls), key, acc))

\* a keydown event on window reaches every registered listener
KeyDown(key) ==
  LET r == Dispatch(listeners, key, [idx |-> currentIndex, set |-> FALSE, calls |-> NoCalls])
  IN  /\ mounted
      /\ navigateCalled' = (listeners # <<>> /\ key \in {"ArrowLeft", "ArrowRight"})
      /\ CommitIndex(r.idx, r.set, r.calls)

\* the component is unmounted: every effect's cleanup runs.  The state of
\* the instance is gone; a fetch that settles later calls the setters of an
\* unmounted component, which does nothing, so the fetches are forgotten.
Unmount ==
  /\ mounted
  /\ mounted' = FALSE
  /\ navigateCalled' = FALSE
  /\ bodyOverflow' = ScrollCleanup
  /\ listeners' = KeyCleanup(listeners, kbEffect)
  /\ kbEffect' = [kbEffect EXCEPT !.added = FALSE]
  /\ out' = NoCalls
  /\ curFetch' = NoFetch
  /\ staleFetches' = [i \in FetchArgs |-> 0]
  /\ UNCHANGED << mediaId, isOpen, allMediaIds, onNavigate, currentIndex,
                  currentMediaInfo, isLoading, selfNavigated >>

Next ==
  \* a re-render changes mediaId and allMediaIds, or isOpen.  A re-render
  \* that changes all three leaves the state these two leave one after the
  \* other: the deps of the scroll-lock effect (line 41) and of the fetch
  \* effect (line 62) are disjoint, and the handler the keyboard effect
  \* leaves bound depends on the final values only.
  \/ \E nid \in Ids \cup {Null}, ncoll \in Colls, newRef \in BOOLEAN :
        Rerender(nid, isOpen, ncoll, newRef)
  \/ \E nopen \in BOOLEAN : Rerender(mediaId, nopen, allMediaIds, FALSE)
  \/ \E ndel \in BOOLEAN : SetOnNavigate(ndel)
  \/ \E ok \in BOOLEAN : SettleCurrent(ok)
  \/ \E id \in Ids, ok \in BOOLEAN : SettleStale(id, ok)
  \/ \E dir \in Dirs : ClickNavigate(dir)
  \/ ClickClose
  \/ \E key \in Keys : KeyDown(key)
  \/ Unmount

Spec == Init /\ [][Next]_vars

TypeOK ==
  /\ mounted \in BOOLEAN /\ isOpen \in BOOLEAN /\ onNavigate \in BOOLEAN
  /\ mediaId \in Ids \cup {Null}
  /\ allMediaIds \in Colls
  /\ currentIndex \in -1..2
  /\ currentMediaInfo \in Infos \cup {NoInfo}
  /\ isLoading \in BOOLEAN
  /\ bodyOverflow \in {"", "hidden"}
  /\ curFetch \in Ids \cup {NoFetch}
  /\ InFlight <= MaxInFlight
  /\ Len(out) <= 1

\* --------------------------------------------------------------- claims
\* a fetch issued for id settles in this step
Settles(id, ok) ==
  /\ InFlight' < InFlight
  /\ (curFetch = id /\ SettleCurrent(ok)) \/ SettleStale(id, ok)

\* the step issues a fetch
Issues == InFlight' > InFlight

\* the step is a re-render that re-runs the index/fetch effect
InputChange ==
  \/ Rerender(mediaId', isOpen', allMediaIds', TRUE)
  \/ mediaId' # mediaId /\ Rerender(mediaId', isOpen', allMediaIds', FALSE)

Resolved == currentIndex >= 0 /\ currentIndex < Len(allMediaIds)

\* C1: a settling fetch writes the stored metadata only if the identifier it
\* was issued for is the current active identifier at settlement time.
C1_StalenessGuard ==
  [][\A id \in Ids, ok \in BOOLEAN :
       (Settles(id, ok) /\ id # mediaId) => currentMediaInfo' = currentMediaInfo]_vars

\* C2 (first conjunct): while the fetch issued for the current inputs has not
\* settled, isLoading is true.
C2_LoadingWhileOutstanding == (mounted /\ curFetch # NoFetch) => isLoading

\* the key that handleKeyDown routes to a direction
ArrowOf(dir) == IF dir = "prev" THEN "ArrowLeft" ELSE "ArrowRight"

\* navigate(dir) is invoked in this step and sees delegate = del: through a
\* button, or through the one registered key listener
Navigates(dir, del) ==
  /\ onNavigate = del
  /\ mounted
  /\ UNCHANGED << mediaId, isOpen, allMediaIds, curFetch, staleFetches >>
  /\ \/ ClickNavigate(dir)
     \/ /\ Len(listeners) = 1 /\ listeners[1].nav = del
        /\ KeyDown(ArrowOf(dir))

\* C3: without a delegate and with a resolved index i in a collection of
\* length n, navigate(next) moves to i + 1, or to 0 from the last position,
\* navigate(prev) moves to i - 1, or to n - 1 from position 0, and the
\* displayed identifier is the collection element at the new index.
C3_SelfManagedNavigation ==
  [][\A dir \in Dirs :
       (Navigates(dir, FALSE) /\ Resolved) =>
         LET n == Len(allMediaIds)
             i == currentIndex
         IN  /\ dir = "next" => currentIndex' = (IF i = n - 1 THEN 0 ELSE i + 1)
             /\ dir = "prev" => currentIndex' = (IF i = 0 THEN n - 1 ELSE i - 1)
             /\ CurrentId' = allMediaIds[currentIndex' + 1]
             /\ out' = NoCalls]_vars

\* the spec's scenario: [m1,m2,m3] opened on m2, next, next wraps to m1
C3_Witness ==
  /\ mounted /\ isOpen /\ ~onNavigate /\ selfNavigated
  /\ allMediaIds = <<"m1", "m2", "m3">> /\ mediaId = "m2"
  /\ currentIndex = 0 /\ CurrentId = "m1"

C5_FetchFailureFallback ==
  [][/\ \A id \in Ids :
          (Settles(id, FALSE) /\ id = mediaId) =>
            /\ Contains(currentMediaInfo'.alt, id)
            /\ currentMediaInfo'.alt # ServerInfo(id).alt
            /\ ~isLoading'
            /\ out' = NoCalls
            /\ InFlight' = InFlight - 1
     /\ Issues => InputChange]_vars

C5_Witness ==
  /\ mounted /\ mediaId = "m2" /\ ~isLoading /\ InFlight = 0
  /\ currentMediaInfo = [alt |-> <<"Media ", "m2">>, createdAt |-> "now"]

\* C6: background scroll is suppressed exactly when the component is mounted
\* and isOpen is true.
C6_ScrollLockPaired == (bodyOverflow = "hidden") <=> (mounted /\ isOpen)

\* torn down while open: scroll is restored
C6_Witness == ~mounted /\ isOpen /\ bodyOverflow = ""

\* C7: at most one key listener is registered, and none while isOpen is
\* false or after teardown.
C7_ListenerLifecycle ==
  /\ Len(listeners) <= 1
  /\ (~isOpen \/ ~mounted) => listeners = <<>>

\* a re-bind while open: the index moved after the listener was first bound
C7_Witness ==
  /\ mounted /\ isOpen /\ selfNavigated /\ Len(listeners) = 1
  /\ currentIndex # IndexOf(allMediaIds, mediaId)
  /\ listeners[1].idx = currentIndex

\* C8: with a null identifier the component returns null, no fetch is in
\* flight for null, and a step that ends with a null identifier issues none.
C8_NullIdentifier ==
  [][mediaId' = Null =>
       /\ Output' = "null"
       /\ curFetch' = NoFetch
       /\ staleFetches'[Null] = 0
       /\ ~Issues]_vars

C8_Witness ==
  /\ mounted /\ mediaId = Null /\ isOpen /\ allMediaIds # <<>>
  /\ Output = "null" /\ InFlight = 1

\* C9: with a delegate (the stored index was not set by a navigation), the
\* stored index is the first position of the input identifier in the
\* collection, and -1 when the identifier is null or absent or the
\* collection is empty.
C9_IndexInvariant ==
  (mounted /\ onNavigate /\ ~selfNavigated) =>
    currentIndex = IndexOf(allMediaIds, mediaId)

NoDuplicates(c) == \A i, j \in 1..Len(c) : c[i] = c[j] => i = j

\* C10: on every Closed -> Open transition with an identifier X present in
\* the collection (a collection without duplicates), the index is X's
\* position and X is displayed.
C10_ReentryResets ==
  [][(mounted' /\ ~isOpen /\ isOpen' /\ mediaId' # Null
        /\ NoDuplicates(allMediaIds')
        /\ IndexOf(allMediaIds', mediaId') # -1) =>
       /\ currentIndex' = IndexOf(allMediaIds', mediaId')
       /\ CurrentId' = mediaId']_vars

\* C11: every change of the active identifier or of the collection while
\* open, to a non-null identifier and any collection (an empty one
\* included), re-resolves the index, issues a fetch for the new identifier
\* and sets isLoading.
C11_ChangeStartsLoad ==
  [][(mounted /\ isOpen /\ isOpen' /\ mediaId' # Null /\ InputChange) =>
       /\ currentIndex' = IndexOf(allMediaIds', mediaId')
       /\ isLoading'
       /\ curFetch' = mediaId'
       /\ Issues]_vars

\* C12: with an empty collection or a stored index of -1, navigate(prev)
\* and navigate(next) change neither index, metadata, isLoading, the fetches
\* in flight nor the listener, and call nothing back (no delegate call).
C12_UnresolvedNavigationNoOp ==
  [][\A dir \in Dirs :
       (/\ mounted /\ navigateCalled'
        /\ (Len(allMediaIds) = 0 \/ currentIndex = -1)
        /\ (ClickNavigate(dir) \/ KeyDown(ArrowOf(dir)))) =>
         /\ UNCHANGED << currentIndex, currentMediaInfo, isLoading, curFetch,
                         staleFetches, listeners >>
         /\ out' = NoCalls]_vars

\* navigate was invoked with a delegate, on an identifier the collection lacks
C12_Witness ==
  /\ mounted /\ isOpen /\ navigateCalled /\ onNavigate
  /\ mediaId # Null /\ allMediaIds # <<>> /\ currentIndex = -1
  /\ \A k \in 1..Len(listeners) : listeners[k].nav
  /\ out = NoCalls

\* close() is invoked in this step: the close button or the overlay, or the
\* Escape key
Closes ==
  /\ mounted /\ isOpen
  /\ UNCHANGED << mediaId, isOpen, allMediaIds, currentIndex >>
  /\ (ClickClose \/ KeyDown("Escape"))

\* C13 as claimed: once close() has been invoked while open, the scroll lock
\* is released and the key listener unbound by that invocation alone.
C13_CloseReachesClosed ==
  (mounted /\ out = << Call("onClose", Null) >>) =>
    (bodyOverflow = "" /\ listeners = <<>>)

\* C13 as amended: close() while open invokes the close notification exactly
\* once and leaves the controller as it is (lock held, listener bound); the
\* lock is released and the listener unbound by the step in which the
\* parent sets isOpen to false or unmounts the component.
C13_CloseNotifiesThenParentCloses ==
  [][/\ Closes =>
          /\ out' = << Call("onClose", Null) >>
          /\ UNCHANGED << mounted, onNavigate, currentMediaInfo, isLoading,
                          bodyOverflow, listeners, curFetch, staleFetches >>
     /\ (mounted /\ isOpen /\ (~isOpen' \/ ~mounted')) =>
          (bodyOverflow' = "" /\ listeners' = <<>>)]_vars

\* close() was invoked and the lightbox is still open
C13_Witness ==
  /\ mounted /\ isOpen /\ out = << Call("onClose", Null) >>
  /\ bodyOverflow = "hidden" /\ Len(listeners) = 1

\* the state the component owns and the fetches in flight
Controller ==
  << currentIndex, currentMediaInfo, isLoading, bodyOverflow, listeners,
     curFetch, staleFetches >>

\* a keydown event is handled in this step
KeyStep(key) ==
  /\ mounted
  /\ UNCHANGED << mediaId, isOpen, allMediaIds, onNavigate, currentMediaInfo >>
  /\ KeyDown(key)

\* C14: while open, a left / right arrow key does what navigate(prev) /
\* navigate(next) of the current render does, Escape invokes the close
\* notification once and changes no state, any other key does nothing; while
\* closed, no key does anything.
C14_KeyRouting ==
  [][/\ \A dir \in Dirs :
          (isOpen /\ KeyStep(ArrowOf(dir))) =>
            /\ currentIndex' =
                 HandleNavigateIndex(currentIndex, allMediaIds, onNavigate, dir)
            /\ out' = HandleNavigateCalls(currentIndex, allMediaIds, onNavigate, dir)
     /\ (isOpen /\ KeyStep("Escape")) =>
          (out' = << Call("onClose", Null) >> /\ UNCHANGED Controller)
     /\ (isOpen /\ KeyStep("a")) => (out' = NoCalls /\ UNCHANGED Controller)
     /\ \A key \in Keys :
          (~isOpen /\ KeyStep(key)) => (out' = NoCalls /\ UNCHANGED Controller)]_vars

Opposite(dir) == IF dir = "prev" THEN "next" ELSE "prev"

\* the index after k further self-managed navigate(dir) calls from index i
RECURSIVE NavigateTimes(_, _, _, _)
NavigateTimes(i, c, dir, k) ==
  IF k = 0 THEN i
  ELSE NavigateTimes(HandleNavigateIndex(i, c, FALSE, dir), c, dir, k - 1)

\* C15: after a self-managed navigate(dir) from a resolved index i, the
\* opposite navigate returns the index to i, and so do n - 1 further
\* navigate(dir) calls (n calls in all), n being the collection's length.
C15_NavigationInvertible ==
  [][\A dir \in Dirs :
       (Navigates(dir, FALSE) /\ Resolved) =>
         /\ NavigateTimes(currentIndex', allMediaIds', Opposite(dir), 1) = currentIndex
         /\ NavigateTimes(currentIndex', allMediaIds', dir, Len(allMediaIds) - 1)
              = currentIndex]_vars

\* the index was last set by handleNavigate and is back where the index
\* effect had resolved it: a round trip in a collection of three
C15_Witness ==
  /\ mounted /\ isOpen /\ ~onNavigate /\ selfNavigated /\ navigateCalled
  /\ allMediaIds = <<"m1", "m2", "m3">>
  /\ Resolved /\ currentIndex = IndexOf(allMediaIds, mediaId)

\* C16: whenever the lightbox is rendered, not loading and holds metadata,
\* the metadata is the one fetched or synthesized for the displayed
\* identifier currentId.
C16_MetadataMatchesDisplayed ==
  (Rendered /\ ~isLoading /\ currentMediaInfo # NoInfo) =>
    currentMediaInfo \in {ServerInfo(CurrentId), Fallback(CurrentId)}

\* C17: the scroll lock is held and a key listener is bound only while
\* isOpen is true and the input identifier is not null.
C17_LockOnlyWhileRendering ==
  (bodyOverflow = "hidden" \/ listeners # <<>>) => (isOpen /\ mediaId # Null)

\* C19: the handler that processes an arrow key holds the stored index and
\* the collection of the latest committed state, and the index and the
\* delegate call it produces are those handleNavigate computes from that
\* index and collection.
C19_ListenerSeesCurrentState ==
  [][\A dir \in Dirs :
       (isOpen /\ KeyStep(ArrowOf(dir))) =>
         /\ Len(listeners) = 1
         /\ listeners[1].idx = currentIndex
         /\ listeners[1].coll = allMediaIds
         /\ currentIndex' =
              HandleNavigateIndex(currentIndex, allMediaIds, listeners[1].nav, dir)
         /\ out' = HandleNavigateCalls(currentIndex, allMediaIds, listeners[1].nav, dir)]_vars

\* a key or button navigation moved the index to the last position and the
\* bound handler holds that index and the collection
C19_Witness ==
  /\ mounted /\ isOpen /\ navigateCalled /\ selfNavigated
  /\ allMediaIds = <<"m1", "m2", "m3">> /\ mediaId = "m1" /\ currentIndex = 2
  /\ Len(listeners) = 1
  /\ listeners[1].idx = 2 /\ listeners[1].coll = allMediaIds

\* every fetch in flight settles at some time: the promise of
\* fetchMediaInfo resolves or rejects, and its handlers then run
SettleFairness ==
  /\ WF_vars(\E ok \in BOOLEAN : SettleCurrent(ok))
  /\ WF_vars(\E id \in Ids, ok \in BOOLEAN : SettleStale(id, ok))

LiveSpec == Spec /\ SettleFairness

\* C18: isLoading is true only while a fetch is in flight; and if the inputs
\* stop changing (and every fetch settles), isLoading is false from some
\* point on.
C18_LoadingEventuallyEnds ==
  /\ []((mounted /\ isLoading) => InFlight > 0)
  /\ (<>[][~InputChange]_vars) => <>[](~mounted \/ ~isLoading)

\* the fetch for the input identifier has resolved, nothing is in flight and
\* the spinner is gone
C18_Witness ==
  /\ mounted /\ isOpen /\ mediaId = "m3" /\ ~isLoading /\ InFlight = 0
  /\ currentMediaInfo = ServerInfo("m3")
====
